---- MODULE Spec2Model ----
(***************************************************************************)
(* A model of the Brainfuck execution engine (class BrainfuckInterpreter)  *)
(* and of the JavaScript scheduling of its asynchronous run loop.          *)
(*                                                                         *)
(* Characters are modelled by their UTF-16 code (String.fromCharCode /     *)
(* charCodeAt), strings by sequences of codes, the program text by a       *)
(* sequence of one-character strings with 0-based index pc at pc + 1.      *)
(* JavaScript runs every handler to its next await: an action of the model *)
(* is one such run-to-completion piece.                                    *)
(***************************************************************************)
EXTENDS Integers, Sequences, FiniteSets, TLC

\* ------------------------------------------------------------------ bounds
MaxMem == 2        \* memory sizes 1..MaxMem are constructed
MaxTasks == 2      \* asynchronous calls (run loops, suspended steps) in flight
MaxOutput == 2     \* '.' is not executed once output holds this many characters
MaxInput == 2      \* the input source is not asked once input holds this many

\* -------------------------------------------------------- programs, inputs
P_inf == <<"+", "[", "]">>
P_loop == <<"+", "+", "[", ">", "+", "<", "-", "]", ">", ".">>
P_io == <<",", ".", ",", ".">>
P_bad == <<"+", "]">>
P_close == <<"]">>
P_open == <<"[", "+">>
P_move == <<"<", "-", ">", ">", "+", "x">>

P_snap == <<",", ".">>
P_wrap == <<"-", "+", "-", ",">>
P_skip == <<",", "[", "-", "]">>
P_read == <<",", ",">>
P_nest == <<"[", "[", "]", "]", "+", "+", "[", "[", "-", "]", "]">>

\* n times '+', then a loop whose body adds 3 to the next cell and takes 1
\* from the counter, then the next cell is written out: '++[>+++<-]>.' for
\* n = 2.
CounterLoop(n) ==
    [i \in 1..n |-> "+"] \o <<"[", ">", "+", "+", "+", "<", "-", "]", ">", ".">>

MaxCount == 3      \* counter loops are entered with 0..MaxCount in the counter

CounterLoops == {CounterLoop(n) : n \in 0..MaxCount}

\* DEFAULT_PROGRAM of the application, line breaks included.
HelloWorld ==
    <<"+", "+", "+", "+", "+", "+", "+", "+", "+", "+", "[", ">", "+", "+",
      "+", "+", "+", "+", "+", ">", "+", "+", "+", "+", "+", "+", "+", "+",
      "+", "+", ">", "+", "+", "+", ">", "+", "<", "<", "<", "<", "-", "]",
      "\n", ">", "+", "+", ".", ">", "+", ".", "+", "+", "+", "+", "+",
      "+", "+", ".", ".", "+", "+", "+", ".", ">", "+", "+", ".", "<", "<",
      "+", "+", "+", "+", "+", "+", "+", "+", "+", "+", "+", "+", "+", "+",
      "+", ".", "\n", ">", ".", "+", "+", "+", ".", "-", "-", "-", "-",
      "-", "-", ".", "-", "-", "-", "-", "-", "-", "-", "-", ".", ">", "+",
      ".", ">", ".">>

\* "Hello World!\n"
HelloText == <<72, 101, 108, 108, 111, 32, 87, 111, 114, 108, 100, 33, 10>>

HelloCells == 5    \* the tape Hello World is run on (it uses cells 0..4)

Programs == {P_inf, P_loop, P_io, P_bad, P_close, P_open, P_move}

\* Texts the input source may resolve to (321 = 256 + 65).
InputTexts == {<<>>, <<65>>, <<321, 66>>}

\* ------------------------------------------------------------------- state
VARIABLES
    program,         \* this.program
    onOutput,        \* whether an output sink is bound
    onInputRequest,  \* whether an input source is bound
    state,           \* this.state
    loopStack,       \* this.loopStack
    tasks,           \* how many asynchronous calls in flight wait at each await
    sinkLog,         \* characters the sink received since construction / reset
    last,            \* the piece of code that ran last, and what it did
    pauseReq,        \* "pending": pause() was called with a loop active and no
                     \* run(), resume() or reset() since; "reset": only a reset()
                     \* since; "none" otherwise
    snapshot,        \* an object returned by getState(), or NoSnapshot
    snapTaken,       \* the values that object's fields had when it was returned
    app              \* the application around the engine (App.tsx)

vars == <<program, onOutput, onInputRequest, state, loopStack, tasks, sinkLog,
          last, pauseReq, snapshot, snapTaken, app>>

\* undefined + 1 in JavaScript: no program counter is ever negative otherwise.
NaN == -1

\* The one Uint8Array the constructor allocates; reset() fills it in place.
MemRef == "Uint8Array#1"

NoSnapshot == [none |-> TRUE]

\* A call that has returned.
NoTask == [kind |-> "none", at |-> "none", ret |-> FALSE]

\* Where an asynchronous call can wait: a run loop for its step() to return
\* (with the value it returns), for its timer, or inside step() for the input
\* source; a step() called by the owner for the input source.
TaskStates ==
    {[kind |-> "run", at |-> "awaitStep", ret |-> TRUE],
     [kind |-> "run", at |-> "awaitStep", ret |-> FALSE],
     [kind |-> "run", at |-> "awaitTimer", ret |-> FALSE],
     [kind |-> "run", at |-> "awaitInput", ret |-> FALSE],
     [kind |-> "step", at |-> "awaitInput", ret |-> FALSE]}

\* --------------------------------------------------------------- the engine
InitialState(memorySize) ==
    [memory |-> [i \in 1..memorySize |-> 0],
     pointer |-> 0,
     programCounter |-> 0,
     output |-> <<>>,
     input |-> <<>>,
     inputIndex |-> 0,
     isRunning |-> FALSE,
     isPaused |-> FALSE]

MemLen(s) == Len(s.memory)

\* What reading an array outside its indices yields; no cell is negative.
Undefined == -2

\* Whether the pointer is an index of the tape: always, unless the tape is
\* empty.
InTape(s) == s.pointer # NaN /\ s.pointer < MemLen(s)

Cell(s) == IF InTape(s) THEN s.memory[s.pointer + 1] ELSE Undefined

\* A store into a Uint8Array keeps the value modulo 256; a store outside its
\* indices is ignored.
SetCellNoMod(s, v) ==
    IF InTape(s) THEN [s EXCEPT !.memory[s.pointer + 1] = v] ELSE s

SetCell(s, v) ==
    IF InTape(s) THEN [s EXCEPT !.memory[s.pointer + 1] = v % 256] ELSE s

\* a % n in JavaScript for a >= 0: NaN when n is 0 or a is NaN.
JsMod(a, n) == IF a = NaN \/ n = 0 THEN NaN ELSE a % n

Inc(pc) == IF pc = NaN THEN NaN ELSE pc + 1

AtEndStrict(s) == s.programCounter # NaN /\ s.programCounter > Len(program)

\* NaN >= n is false.
AtEnd(s) == s.programCounter # NaN /\ s.programCounter >= Len(program)

\* Indexing a string with NaN or past its end yields undefined.
Fetch(s) ==
    IF s.programCounter = NaN \/ s.programCounter >= Len(program)
    THEN "undefined"
    ELSE program[s.programCounter + 1]

ResetStateKeepsInput(s) ==
    [memory |-> [i \in 1..MemLen(s) |-> 0],
     pointer |-> 0,
     programCounter |-> 0,
     output |-> <<>>,
     input |-> s.input,
     inputIndex |-> 0,
     isRunning |-> FALSE,
     isPaused |-> FALSE]

ResetState(s) ==
    [memory |-> [i \in 1..MemLen(s) |-> 0],
     pointer |-> 0,
     programCounter |-> 0,
     output |-> <<>>,
     input |-> <<>>,
     inputIndex |-> 0,
     isRunning |-> FALSE,
     isPaused |-> FALSE]

ExecRightClamped(s) ==
    [s EXCEPT !.pointer = IF s.pointer + 1 >= MemLen(s) THEN s.pointer ELSE s.pointer + 1]

ExecRight(s) == [s EXCEPT !.pointer = JsMod(Inc(s.pointer), MemLen(s))]

ExecLeft(s) ==
    [s EXCEPT !.pointer = IF s.pointer = NaN THEN NaN
                          ELSE JsMod(s.pointer - 1 + MemLen(s), MemLen(s))]

ExecInc(s) == SetCell(s, (Cell(s) + 1) % 256)

ExecDec(s) == SetCell(s, (Cell(s) - 1 + 256) % 256)

OutputCharPointer(s) == s.pointer

\* String.fromCharCode(undefined) is the character of code 0.
OutputChar(s) == IF Cell(s) = Undefined THEN 0 ELSE Cell(s)

ExecOutputAssign(s) == [s EXCEPT !.output = <<OutputChar(s)>>]

ExecOutput(s) == [s EXCEPT !.output = Append(s.output, OutputChar(s))]

SinkCalls(s) == IF onOutput THEN <<OutputChar(s)>> ELSE <<>>

NeedsRequest(s) == onInputRequest /\ s.inputIndex >= Len(s.input)

AppendInput(s, newInput) == [s EXCEPT !.input = s.input \o newInput]

ExecConsumeAlwaysAdvance(s) ==
    [(IF s.inputIndex < Len(s.input)
      THEN SetCell(s, s.input[s.inputIndex + 1])
      ELSE SetCell(s, 0)) EXCEPT !.inputIndex = s.inputIndex + 1]

ExecConsumeNoAdvance(s) ==
    IF s.inputIndex < Len(s.input)
    THEN SetCell(s, s.input[s.inputIndex + 1])
    ELSE SetCell(s, 0)

ExecConsumeKeep(s) ==
    IF s.inputIndex < Len(s.input)
    THEN [SetCell(s, s.input[s.inputIndex + 1]) EXCEPT !.inputIndex = s.inputIndex + 1]
    ELSE s

ExecConsume(s) ==
    IF s.inputIndex < Len(s.input)
    THEN [SetCell(s, s.input[s.inputIndex + 1]) EXCEPT !.inputIndex = s.inputIndex + 1]
    ELSE SetCell(s, 0)

RECURSIVE ScanFirstClose(_, _)
ScanFirstClose(i, depth) ==
    IF i < Len(program) /\ depth > 0
    THEN ScanFirstClose(i + 1, IF program[i + 1] = "]" THEN depth - 1 ELSE depth)
    ELSE i

RECURSIVE Scan(_, _)
Scan(i, depth) ==
    IF i < Len(program) /\ depth > 0
    THEN Scan(i + 1, IF program[i + 1] = "[" THEN depth + 1
                     ELSE IF program[i + 1] = "]" THEN depth - 1
                     ELSE depth)
    ELSE i

ExecOpenState(s) ==
    IF Cell(s) = 0
    THEN [s EXCEPT !.programCounter = Scan(s.programCounter + 1, 1) - 1]
    ELSE s

ExecOpenStack(s, ls) == IF Cell(s) = 0 THEN ls ELSE Append(ls, s.programCounter)

StackTop(ls) == IF ls = <<>> THEN NaN ELSE ls[Len(ls)]

ExecCloseStateNoJump(s, ls) == s

ExecCloseStateAlwaysJump(s, ls) == [s EXCEPT !.programCounter = StackTop(ls)]

ExecCloseState(s, ls) ==
    IF Cell(s) # 0 THEN [s EXCEPT !.programCounter = StackTop(ls)] ELSE s

ExecCloseStack(s, ls) ==
    IF Cell(s) # 0 THEN ls
    ELSE IF ls = <<>> THEN ls ELSE SubSeq(ls, 1, Len(ls) - 1)

ExecOtherAsInc(s) == ExecInc(s)

\* No case of the switch matches: nothing is done.
ExecOther(s) == s

Advance(s) == [s EXCEPT !.programCounter = Inc(s.programCounter)]

StepResult(s, ls, sink, ret, instr) ==
    [state |-> s, loopStack |-> ls, sink |-> sink, ret |-> ret, instr |-> instr,
     at |-> 0]

\* step() from its entry to its return or to its await of the input source.
StepSync(s, ls) ==
    LET i == Fetch(s)
        r == IF AtEnd(s)
             THEN StepResult([s EXCEPT !.isRunning = FALSE], ls, <<>>, "false", "")
             ELSE IF i = "," /\ NeedsRequest(s)
             THEN StepResult(s, ls, <<>>, "await", i)
             ELSE LET s2 == CASE i = ">" -> ExecRight(s)
                              [] i = "<" -> ExecLeft(s)
                              [] i = "+" -> ExecInc(s)
                              [] i = "-" -> ExecDec(s)
                              [] i = "." -> ExecOutput(s)
                              [] i = "," -> ExecConsume(s)
                              [] i = "[" -> ExecOpenState(s)
                              [] i = "]" -> ExecCloseState(s, ls)
                              [] OTHER -> ExecOther(s)
                      ls2 == CASE i = "[" -> ExecOpenStack(s, ls)
                               [] i = "]" -> ExecCloseStack(s, ls)
                               [] OTHER -> ls
                  IN StepResult(Advance(s2), ls2,
                                IF i = "." THEN SinkCalls(s) ELSE <<>>, "true", i)
    IN [r EXCEPT !.at = s.programCounter]

\* step() from the resolution of the input source to its return.
StepAfterInput(s, newInput) == Advance(ExecConsume(AppendInput(s, newInput)))

\* The bounds of the model: a step that would grow output or input past them
\* is not taken.
DotCount(p) == Cardinality({i \in 1..Len(p) : p[i] = "."})

\* A bound below the number of '.' in the program text would cut a single
\* pass over it short.
OutputLimit == IF DotCount(program) > MaxOutput THEN DotCount(program) ELSE MaxOutput

WithinBounds(s) ==
    /\ Fetch(s) = "." => Len(s.output) < OutputLimit
    /\ (Fetch(s) = "," /\ NeedsRequest(s)) => Len(s.input) < MaxInput

EnterRunNotRunning(s) == [s EXCEPT !.isPaused = FALSE]

EnterRun(s) == [s EXCEPT !.isRunning = TRUE, !.isPaused = FALSE]

LoopConditionNoPause(s) == s.isRunning

LoopCondition(s) == s.isRunning /\ ~s.isPaused

PauseState(s) == [s EXCEPT !.isPaused = TRUE]

ResumeGuardAlways(s) == TRUE

ResumeGuard(s) == s.isPaused

ResumeState(s) == [s EXCEPT !.isPaused = FALSE]

AfterStep(s, canContinue) == IF ~canContinue THEN [s EXCEPT !.isRunning = FALSE] ELSE s

\* ------------------------------------------------------------- bookkeeping
Last(call, r) ==
    [call |-> call, instr |-> r.instr, at |-> r.at, ret |-> r.ret,
     sink |-> r.sink, source |-> (r.ret = "await")]

LastPlain(call) ==
    [call |-> call, instr |-> "", at |-> 0, ret |-> "", sink |-> <<>>,
     source |-> FALSE]

RECURSIVE CountIn(_)
CountIn(S) ==
    IF S = {} THEN 0
    ELSE LET k == CHOOSE x \in S : TRUE IN tasks[k] + CountIn(S \ {k})

TaskCount == CountIn(TaskStates)

\* Run loops that have been entered and have not exited.
RunLoops == CountIn({k \in TaskStates : k.kind = "run"})

\* Calls of step() that have begun and not returned.
StepsInFlight == CountIn({k \in TaskStates : k.at = "awaitInput"})

Spawn(k) == IF k = NoTask THEN tasks ELSE [tasks EXCEPT ![k] = @ + 1]

Move(from, to) ==
    IF to = NoTask THEN [tasks EXCEPT ![from] = @ - 1]
    ELSE IF to = from THEN tasks
    ELSE [tasks EXCEPT ![from] = @ - 1, ![to] = @ + 1]

TimerTask == [kind |-> "run", at |-> "awaitTimer", ret |-> FALSE]

\* Where a task that has just called step() waits, given the step's outcome.
AfterCall(kind, r) ==
    IF r.ret = "await" THEN [kind |-> kind, at |-> "awaitInput", ret |-> FALSE]
    ELSE IF kind = "run"
    THEN [kind |-> "run", at |-> "awaitStep", ret |-> (r.ret = "true")]
    ELSE NoTask

\* The application before its first handler: executionState 'idle', no
\* polling interval, no run() awaited by handleStart, never resumed.
AppInitial ==
    [executionState |-> "idle", polling |-> FALSE, awaitedAt |-> NoTask,
     resumed |-> FALSE]

\* The engine as its constructor leaves it.
Constructed(programs, sizes) ==
    /\ program \in programs
    /\ onOutput \in BOOLEAN
    /\ onInputRequest \in BOOLEAN
    /\ \E memorySize \in sizes : state = InitialState(memorySize)
    /\ loopStack = <<>>
    /\ tasks = [k \in TaskStates |-> 0]
    /\ sinkLog = <<>>
    /\ last = LastPlain("new")
    /\ pauseReq = "none"
    /\ snapshot = NoSnapshot
    /\ snapTaken = NoSnapshot
    /\ app = AppInitial

Init == Constructed(Programs, 1..MaxMem)

\* ----------------------------------------------------------------- actions
\* A call that enters the run loop: run() up to its first await.
StartLoop(call, s) ==
    /\ TaskCount < MaxTasks
    /\ WithinBounds(EnterRun(s))
    /\ LET r == StepSync(EnterRun(s), loopStack)
       IN /\ state' = r.state
          /\ loopStack' = r.loopStack
          /\ sinkLog' = sinkLog \o r.sink
          /\ tasks' = Spawn(AfterCall("run", r))
          /\ last' = Last(call, r)
    /\ pauseReq' = "none"
    /\ UNCHANGED <<program, onOutput, onInputRequest, snapshot, snapTaken>>

Run == StartLoop("run", state) /\ UNCHANGED app

ResumePaused ==
    /\ ResumeGuard(state)
    /\ StartLoop("resume", ResumeState(state))
    /\ UNCHANGED app

ResumeNotPaused ==
    /\ ~ResumeGuard(state)
    /\ last' = LastPlain("resume")
    /\ UNCHANGED <<program, onOutput, onInputRequest, state, loopStack, tasks,
                   sinkLog, pauseReq, snapshot, snapTaken, app>>

\* pause(), whoever calls it.
DoPause ==
    /\ state' = PauseState(state)
    /\ last' = LastPlain("pause")
    /\ pauseReq' = IF RunLoops > 0 THEN "pending" ELSE pauseReq
    /\ UNCHANGED <<program, onOutput, onInputRequest, loopStack, tasks, sinkLog,
                   snapshot, snapTaken>>

Pause == DoPause /\ UNCHANGED app

Reset ==
    /\ state' = ResetState(state)
    /\ loopStack' = <<>>
    /\ sinkLog' = <<>>
    /\ last' = LastPlain("reset")
    /\ pauseReq' = IF pauseReq = "none" THEN "none" ELSE "reset"
    /\ UNCHANGED <<program, onOutput, onInputRequest, tasks, snapshot, snapTaken,
                   app>>

\* step() called from outside the run loop.
DoStep ==
    /\ WithinBounds(state)
    /\ LET r == StepSync(state, loopStack)
       IN /\ r.ret = "await" => TaskCount < MaxTasks
          /\ state' = r.state
          /\ loopStack' = r.loopStack
          /\ sinkLog' = sinkLog \o r.sink
          /\ tasks' = Spawn(AfterCall("step", r))
          /\ last' = Last("step", r)
    /\ UNCHANGED <<program, onOutput, onInputRequest, pauseReq, snapshot, snapTaken>>

\* step() called by the owner of the engine.
Step == DoStep /\ UNCHANGED app

\* The continuation of `await this.step()` in run().
DoStepReturns(k) ==
    /\ k.at = "awaitStep"
    /\ tasks[k] > 0
    /\ state' = AfterStep(state, k.ret)
    /\ tasks' = Move(k, TimerTask)
    /\ last' = LastPlain("stepReturns")
    /\ UNCHANGED <<program, onOutput, onInputRequest, loopStack, sinkLog, pauseReq,
                   snapshot, snapTaken>>

StepReturns(k) == DoStepReturns(k) /\ UNCHANGED app

\* The timer of run() fires and the loop goes on with its next step.
DoTimerContinue ==
    /\ tasks[TimerTask] > 0
    /\ LoopCondition(state)
    /\ WithinBounds(state)
    /\ LET r == StepSync(state, loopStack)
       IN /\ state' = r.state
          /\ loopStack' = r.loopStack
          /\ sinkLog' = sinkLog \o r.sink
          /\ tasks' = Move(TimerTask, AfterCall("run", r))
          /\ last' = Last("loopStep", r)
    /\ UNCHANGED <<program, onOutput, onInputRequest, pauseReq, snapshot, snapTaken>>

TimerContinue == DoTimerContinue /\ UNCHANGED app

\* The timer of run() fires and the loop exits: run() returns.
DoTimerExit ==
    /\ tasks[TimerTask] > 0
    /\ ~LoopCondition(state)
    /\ tasks' = Move(TimerTask, NoTask)
    /\ last' = LastPlain("runReturns")
    /\ UNCHANGED <<program, onOutput, onInputRequest, state, loopStack, sinkLog,
                   pauseReq, snapshot, snapTaken>>

TimerExit == DoTimerExit /\ UNCHANGED app

\* The input source resolves the request of task t.
InputResolves(k, newInput) ==
    /\ k.at = "awaitInput"
    /\ tasks[k] > 0
    /\ state' = StepAfterInput(state, newInput)
    /\ tasks' = Move(k, AfterCall(k.kind, [ret |-> "true"]))
    /\ last' = [LastPlain("inputResolves") EXCEPT
                   !.instr = ",", !.ret = "true", !.at = state.programCounter]
    /\ UNCHANGED <<program, onOutput, onInputRequest, loopStack, sinkLog, pauseReq,
                   snapshot, snapTaken, app>>

\* getState(): a new object with the fields of this.state; its memory field
\* is the engine's own array.
SnapshotOf(s) == [s EXCEPT !.memory = MemRef]

GetState ==
    /\ snapshot = NoSnapshot
    /\ snapshot' = SnapshotOf(state)
    /\ snapTaken' = state
    /\ last' = LastPlain("getState")
    /\ UNCHANGED <<program, onOutput, onInputRequest, state, loopStack, tasks,
                   sinkLog, pauseReq, app>>

Next ==
    \/ Run
    \/ ResumePaused
    \/ ResumeNotPaused
    \/ Pause
    \/ Reset
    \/ Step
    \/ \E k \in TaskStates : StepReturns(k)
    \/ TimerContinue
    \/ TimerExit
    \/ \E k \in TaskStates, newInput \in InputTexts : InputResolves(k, newInput)

Spec == Init /\ [][Next]_vars

\* An engine whose owner also calls getState(): one program that reads and
\* writes, both callbacks bound.
InitSnap ==
    /\ Constructed({P_snap}, {1})
    /\ onOutput /\ onInputRequest

NextSnap == Next \/ GetState

SnapSpec == InitSnap /\ [][NextSnap]_vars

\* The scheduler runs every continuation that is ready: a fired timer, a
\* returned step(); and the input source answers every request.
Fairness ==
    /\ WF_vars(TimerContinue)
    /\ WF_vars(TimerExit)
    /\ \A k \in TaskStates : WF_vars(StepReturns(k))
    /\ \A k \in TaskStates : WF_vars(\E newInput \in InputTexts : InputResolves(k, newInput))

\* An endless program and one that reads and writes.
InitFair == Constructed({P_inf, P_snap}, 1..MaxMem)

FairSpec == InitFair /\ [][Next]_vars /\ Fairness

\* ------------------------------------------------------------------ claims
\* A transition in which a step() executed instruction i to its return.
Executed(i) == last'.instr = i /\ last'.ret = "true" /\ last'.call # "inputResolves"

RECURSIVE RightTimes(_, _)
RightTimes(s, k) == IF k = 0 THEN s ELSE RightTimes(ExecRight(s), k - 1)

RECURSIVE LeftTimes(_, _)
LeftTimes(s, k) == IF k = 0 THEN s ELSE LeftTimes(ExecLeft(s), k - 1)

\* C1: the data pointer always satisfies 0 <= pointer < memory.length; a step
\* executing '>' at the last index leaves it at 0 and otherwise adds 1, a step
\* executing '<' at index 0 leaves it at memory.length - 1 and otherwise
\* subtracts 1, and memory.length consecutive '>' (or '<') return it to where
\* it started.
C1_PointerWraps ==
    /\ [](/\ state.pointer \in 0..(MemLen(state) - 1)
          /\ RightTimes(state, MemLen(state)).pointer = state.pointer
          /\ LeftTimes(state, MemLen(state)).pointer = state.pointer)
    /\ [][Executed(">") =>
            state'.pointer = IF state.pointer = MemLen(state) - 1 THEN 0
                             ELSE state.pointer + 1]_vars
    /\ [][Executed("<") =>
            state'.pointer = IF state.pointer = 0 THEN MemLen(state) - 1
                             ELSE state.pointer - 1]_vars

\* C1 witness: a '>' executed at the last index of a tape of more than one cell
\* has brought the pointer back to 0.
C1_Witness ==
    /\ last.instr = ">" /\ last.ret = "true"
    /\ MemLen(state) > 1
    /\ state.pointer = 0

\* C2: programCounter is always an integer in 0..program.length, also after a
\* ']' executed with a non-zero cell and an empty loop-match stack.
C2_ProgramCounterInRange ==
    state.programCounter \in 0..Len(program)

\* C3: whenever a run loop exits (run() returns), isRunning is false.
C3_ExitedLoopNotRunning ==
    last.call = "runReturns" => ~state.isRunning

\* C4: at most one run loop is active and at most one step() is in flight.
C4_OneLoopOneStep ==
    RunLoops <= 1 /\ StepsInFlight <= 1

\* What the owner reads through a returned snapshot.
Deref(ref) == state.memory

SnapshotView == [snapshot EXCEPT !.memory = Deref(snapshot.memory)]

\* C5: a snapshot returned by getState() keeps the values it was returned
\* with, its memory tape included, whatever the engine does later.
C5_SnapshotIsCopy ==
    snapshot # NoSnapshot => SnapshotView = snapTaken


\* C6 as stated: a run loop that exits after a pause() of an active loop that
\* no resume() or run() followed exits with isPaused = true.
C6_ExitsPaused ==
    (pauseReq # "none" /\ last.call = "runReturns") => state.isPaused

\* C6 amended: after a pause() of an active loop followed by no resume(),
\* run() or reset(), the loop starts no new step, every run loop eventually
\* exits (every input request being answered), and it exits with
\* isPaused = true.
C6_PauseStopsLoop ==
    /\ [][(pauseReq = "pending" /\ pauseReq' = "pending") => last'.call # "loopStep"]_vars
    /\ []((pauseReq = "pending" /\ last.call = "runReturns") => state.isPaused)
    /\ (pauseReq = "pending") ~> (pauseReq # "pending" \/ RunLoops = 0)

\* C6 witness: a loop of the endless program '+[]' has exited after a pause.
C6_Witness ==
    /\ program = P_inf
    /\ pauseReq = "pending"
    /\ last.call = "runReturns"
    /\ RunLoops = 0
    /\ state.isPaused

\* C7: resume() with isPaused true clears isPaused and enters a run loop whose
\* first step executes the instruction at the programCounter held at the
\* call, on the memory, pointer, output, input, inputIndex and loop-match
\* stack held at the call; resume() with isPaused false changes nothing and
\* starts no loop.
C7_ResumeContinues ==
    [][last'.call = "resume" =>
        IF state.isPaused
        THEN LET r == StepSync([state EXCEPT !.isPaused = FALSE, !.isRunning = TRUE],
                               loopStack)
             IN /\ ~state'.isPaused
                /\ last'.at = state.programCounter
                /\ last'.instr = (IF AtEnd(state) THEN "" ELSE Fetch(state))
                /\ state' = r.state
                /\ loopStack' = r.loopStack
                /\ RunLoops' = RunLoops + 1
        ELSE /\ state' = state
             /\ loopStack' = loopStack
             /\ tasks' = tasks
             /\ sinkLog' = sinkLog]_vars

\* C7 witness: a resume() of a paused engine has executed an instruction in
\* the middle of the program.
C7_Witness ==
    /\ last.call = "resume"
    /\ last.ret = "true"
    /\ last.at > 0
    /\ last.at < Len(program)

\* C8: right after reset() the state is the construction-time state, the
\* loop-match stack is empty, and reset() called neither callback.
C8_ResetRestoresInitial ==
    last.call = "reset" =>
        /\ state = InitialState(MemLen(state))
        /\ loopStack = <<>>
        /\ last.sink = <<>>
        /\ ~last.source

\* C8 witness: reset() was called while a run loop was in flight.
C8_Witness ==
    /\ last.call = "reset"
    /\ RunLoops > 0

\* C9: step() with programCounter >= program.length returns false, calls no
\* callback and changes nothing but isRunning, which it sets to false.
C9_StepAtEndIsInert ==
    [][(last'.call \in {"step", "loopStep"} /\ state.programCounter >= Len(program)) =>
        /\ last'.ret = "false"
        /\ last'.sink = <<>>
        /\ ~last'.source
        /\ state' = [state EXCEPT !.isRunning = FALSE]
        /\ loopStack' = loopStack
        /\ sinkLog' = sinkLog]_vars

\* C9 witness: step() has returned false at the end of a program that
\* produced output.
C9_Witness ==
    /\ last.call = "step"
    /\ last.ret = "false"
    /\ state.programCounter = Len(program)
    /\ state.output # <<>>

\* C10: with a sink bound, every step executing '.' calls it exactly once,
\* with the character whose code is the current cell, and appends that
\* character to output; nothing else calls it; and the calls since
\* construction or the last reset() are the output field, in order.
C10_SinkFollowsOutput ==
    /\ [](onOutput => sinkLog = state.output)
    /\ [](last.sink # <<>> => (last.instr = "." /\ last.ret = "true"))
    /\ [][Executed(".") =>
            /\ last'.sink = (IF onOutput THEN <<Cell(state)>> ELSE <<>>)
            /\ state'.output = Append(state.output, Cell(state))
            /\ sinkLog' = sinkLog \o last'.sink]_vars

\* C10 witness: the sink has received two different characters.
C10_Witness ==
    /\ onOutput
    /\ last.instr = "."
    /\ Len(sinkLog) = 2
    /\ sinkLog[1] # sinkLog[2]

\* C11: the input source is called only by a step executing ',' with
\* inputIndex >= input.length, and no request is issued while an earlier one
\* is unresolved.
C11_OneRequestPending ==
    /\ last.source => (last.instr = "," /\ state.inputIndex >= Len(state.input))
    /\ CountIn({k \in TaskStates : k.at = "awaitInput"}) < 2

\* ------------------------------------------------- one run() to its return
\* An engine whose owner calls run() once and nothing else: a counter loop on
\* a tape of at least two cells, or Hello World with both callbacks bound as
\* the application binds them.
InitRun ==
    \/ Constructed(CounterLoops, 2..MaxMem)
    \/ /\ Constructed({HelloWorld}, {HelloCells})
       /\ onOutput /\ onInputRequest

RunOnce == last.call = "new" /\ Run

NextRun ==
    \/ RunOnce
    \/ \E k \in TaskStates : StepReturns(k)
    \/ TimerContinue
    \/ TimerExit

RunSpec == InitRun /\ [][NextRun]_vars /\ WF_vars(RunOnce) /\ Fairness

Finished == last.call = "runReturns"

CounterOf(p) == CHOOSE n \in 0..MaxCount : p = CounterLoop(n)

\* C12: run() of n '+' followed by '[>+++<-]>.' terminates; when it has
\* returned isRunning and isPaused are false, programCounter is
\* program.length, the counter cell is 0, the next cell holds 3 * n (the body
\* ran exactly n times) and exactly one character, of code 3 * n, was emitted.
C12_CounterLoopTerminates ==
    /\ []((Finished /\ program \in CounterLoops) =>
            LET n == CounterOf(program)
            IN /\ ~state.isRunning /\ ~state.isPaused
               /\ state.programCounter = Len(program)
               /\ state.memory[1] = 0
               /\ state.memory[2] = 3 * n
               /\ state.pointer = 1
               /\ loopStack = <<>>
               /\ state.output = <<3 * n>>
               /\ sinkLog = (IF onOutput THEN <<3 * n>> ELSE <<>>))
    /\ (program \in CounterLoops) ~> Finished

\* C12 witness: '++[>+++<-]>.' has run to its end and emitted code 6.
C12_Witness ==
    /\ Finished
    /\ program = CounterLoop(2)
    /\ state.output = <<6>>
    /\ state.memory[1] = 0

\* C13: while Hello World runs the sink has received a prefix of
\* "Hello World!\n", one call per character; the run terminates, and when it
\* has returned the sink has received exactly that text.
C13_HelloWorld ==
    /\ [](program = HelloWorld =>
            /\ Len(sinkLog) <= Len(HelloText)
            /\ sinkLog = SubSeq(HelloText, 1, Len(sinkLog))
            /\ Len(last.sink) <= 1
            /\ (Finished => sinkLog = HelloText))
    /\ (program = HelloWorld) ~> Finished

\* C13 witness: Hello World has run to its end and the sink holds 13
\* characters.
C13_Witness ==
    /\ Finished
    /\ program = HelloWorld
    /\ Len(sinkLog) = 13

\* ------------------------------------------------------------ construction
\* new Uint8Array(n) throws a RangeError for n < 0 and nothing else in the
\* constructor looks at memorySize.
Constructs(memorySize) == memorySize >= 0

SizesTried == {-1, 0} \cup (1..MaxMem)

InitCtor ==
    \E memorySize \in SizesTried :
        /\ Constructs(memorySize)
        /\ Constructed({P_inf, P_snap, P_move}, {memorySize})

CtorSpec == InitCtor /\ [][Next]_vars

\* C14: no engine with a tape of fewer than one cell is ever created and
\* stepped.
C14_NoInvalidTape ==
    last.instr # "" => MemLen(state) >= 1

\* C15: a step() executing ']' with the current cell 0 and the loop-match
\* stack empty returns true, adds 1 to programCounter, leaves the stack empty
\* and changes nothing else; for the program ']' a step() at programCounter 0
\* returns true and the next one, at 1, returns false.
C15_UnmatchedCloseFallsThrough ==
    /\ [][(last'.call \in {"step", "loopStep"} /\ Fetch(state) = "]"
           /\ Cell(state) = 0 /\ loopStack = <<>>) =>
            /\ last'.ret = "true"
            /\ last'.instr = "]"
            /\ state' = [state EXCEPT !.programCounter = state.programCounter + 1]
            /\ loopStack' = <<>>
            /\ sinkLog' = sinkLog
            /\ ~last'.source]_vars
    /\ []((program = P_close /\ last.call = "step") =>
            /\ state.programCounter = 1
            /\ last.ret = (IF last.at = 0 THEN "true" ELSE "false"))

\* C15 witness: for the program ']' the second step() has returned false.
C15_Witness ==
    /\ program = P_close
    /\ last.call = "step"
    /\ last.at = 1
    /\ last.ret = "false"
    /\ loopStack = <<>>

\* ------------------------------------------------------- cells and input
\* Programs that wrap a cell both ways and then read into it.
InitCells == Constructed({P_wrap, P_move}, 1..MaxMem)

CellSpec == InitCells /\ [][Next]_vars

\* C16: with no input source bound, a step executing ',' returns without
\* awaiting, writes 0 into the current cell and leaves input and inputIndex
\* as they were; no step is ever suspended and input stays empty.
C16_NoSourceReadsZero ==
    /\ [](~onInputRequest =>
            /\ CountIn({k \in TaskStates : k.at = "awaitInput"}) = 0
            /\ state.input = <<>> /\ state.inputIndex = 0)
    /\ [][(~onInputRequest /\ last'.instr = ",") =>
            /\ last'.ret = "true"
            /\ ~last'.source
            /\ state'.pointer = state.pointer
            /\ state'.memory = [state.memory EXCEPT ![state.pointer + 1] = 0]
            /\ state'.input = state.input
            /\ state'.inputIndex = state.inputIndex]_vars

\* C16 witness: with no input source, the ',' of '-+-,' has replaced 255 by 0.
C16_Witness ==
    /\ ~onInputRequest
    /\ program = P_wrap
    /\ last.instr = "," /\ last.at = 3 /\ last.ret = "true"
    /\ Cell(state) = 0

\* The effect of '+' and of '-' on the value of the current cell.
OneCell(v) == [InitialState(1) EXCEPT !.memory = <<v>>]
IncByte == [v \in 0..255 |-> Cell(ExecInc(OneCell(v)))]
DecByte == [v \in 0..255 |-> Cell(ExecDec(OneCell(v)))]

Twice(f) == [v \in 0..255 |-> f[f[v]]]
Times256(f) == Twice(Twice(Twice(Twice(Twice(Twice(Twice(Twice(f))))))))
Inc256 == Times256(IncByte)
Dec256 == Times256(DecByte)
BytesReturn == \A v \in 0..255 : Inc256[v] = v /\ Dec256[v] = v

\* C17: every cell is always in 0..255, also after ',' has consumed a
\* character of code above 255; a step executing '+' turns 255 into 0 and
\* otherwise adds 1, a step executing '-' turns 0 into 255 and otherwise
\* subtracts 1, and 256 times '+' (or '-') leave the cell as it was.
C17_CellsAreBytes ==
    /\ [](/\ \A i \in 1..MemLen(state) : state.memory[i] \in 0..255
          /\ BytesReturn)
    /\ [][Executed("+") =>
            state'.memory = [state.memory EXCEPT ![state.pointer + 1] =
                                IF @ = 255 THEN 0 ELSE @ + 1]]_vars
    /\ [][Executed("-") =>
            state'.memory = [state.memory EXCEPT ![state.pointer + 1] =
                                IF @ = 0 THEN 255 ELSE @ - 1]]_vars

\* C17 witness: ',' has consumed the character of code 321 and the cell
\* holds 65.
C17_Witness ==
    /\ last.instr = ","
    /\ state.inputIndex > 0
    /\ state.input[state.inputIndex] = 321
    /\ Cell(state) = 65

\* ------------------------------------------------------------------ loops
\* Programs with balanced brackets: a loop after a read, and nested loops
\* of which the first pair is skipped and the second entered.
InitLoop == Constructed({P_skip, P_nest}, 1..MaxMem)

LoopSpec == InitLoop /\ [][Next]_vars

\* Nested loops next to a program that reads, so that every operation of the
\* engine occurs.
InitSkip == Constructed({P_nest, P_wrap}, 1..MaxMem)

SkipSpec == InitSkip /\ [][Next]_vars

\* Brackets of a program text p, by position counted from 0.
Opens(p) == {i \in 0..(Len(p) - 1) : p[i + 1] = "["}

Closes(p) == {i \in 0..(Len(p) - 1) : p[i + 1] = "]"}

\* '[' minus ']' among the positions a..b.
Balance(p, a, b) ==
    Cardinality(Opens(p) \cap (a..b)) - Cardinality(Closes(p) \cap (a..b))

IsBalanced(p) ==
    /\ Balance(p, 0, Len(p) - 1) = 0
    /\ \A b \in 0..(Len(p) - 1) : Balance(p, 0, b) >= 0

HasMatch(p, o) == \E j \in (o + 1)..(Len(p) - 1) : Balance(p, o, j) = 0

\* The ']' that closes the '[' at o: the first position at which the
\* brackets from o on are even.
MatchOf(p, o) ==
    CHOOSE j \in (o + 1)..(Len(p) - 1) :
        /\ Balance(p, o, j) = 0
        /\ \A k \in (o + 1)..(j - 1) : Balance(p, o, k) # 0

\* The '[' closed by the ']' at c.
OpenOf(p, c) == CHOOSE o \in Opens(p) : HasMatch(p, o) /\ MatchOf(p, o) = c

\* The pairs whose body (up to and including its ']') holds position pc.
Enclosing(p, pc) ==
    {o \in Opens(p) : HasMatch(p, o) /\ o < pc /\ pc <= MatchOf(p, o)}

\* C18: for a program with balanced brackets, whenever no step() is in
\* flight the loop-match stack is as long as the number of bracket pairs
\* enclosing the instruction at programCounter; it is empty outside every
\* loop body and at termination.
C18_StackMatchesDepth ==
    (IsBalanced(program) /\ StepsInFlight = 0) =>
        /\ Len(loopStack) = Cardinality(Enclosing(program, state.programCounter))
        /\ AtEnd(state) => loopStack = <<>>

\* C19: for a program with balanced brackets, a step executing ']' with a
\* non-zero cell finds the position of the matching '[' on top of the
\* loop-match stack, ends with programCounter just after that '[' and leaves
\* the stack as it was.
C19_CloseJumpsToMatch ==
    [][(IsBalanced(program) /\ Executed("]") /\ Cell(state) # 0) =>
            /\ StackTop(loopStack) = OpenOf(program, state.programCounter)
            /\ state'.programCounter = OpenOf(program, state.programCounter) + 1
            /\ loopStack' = loopStack]_vars

\* C20: a step executing '[' with cell 0, where the '[' has a matching ']',
\* ends with programCounter just after the matching ']' (nested pairs
\* counted); the loop-match stack, memory, pointer and output are unchanged
\* and nothing is delivered to the sink.
C20_OpenSkipsToMatch ==
    [][(Executed("[") /\ Cell(state) = 0 /\ HasMatch(program, state.programCounter)) =>
            /\ state'.programCounter = MatchOf(program, state.programCounter) + 1
            /\ loopStack' = loopStack
            /\ state'.memory = state.memory
            /\ state'.pointer = state.pointer
            /\ state'.output = state.output
            /\ state'.input = state.input
            /\ state'.inputIndex = state.inputIndex
            /\ sinkLog' = sinkLog]_vars

\* C20 witness: the first '[' of '[[]]++[[-]]' has been executed with cell 0
\* and programCounter is past the outer ']', not the inner one.
C20_Witness ==
    /\ program = P_nest
    /\ last.instr = "[" /\ last.at = 0 /\ last.ret = "true"
    /\ state.programCounter = 4
    /\ loopStack = <<>>

\* ------------------------------------------------------------------ input
\* A program that reads twice: the second ',' may find a character buffered.
InitRead == Constructed({P_read}, 1..MaxMem)

ReadSpec == InitRead /\ [][Next]_vars

\* A transition in which a step() completed ',': in one piece, or on the
\* resolution of its request.
Consumed == last'.instr = "," /\ last'.ret = "true"

\* Whether that step found an unconsumed character: in the buffer, or in
\* what the input source returned.
Available == state.inputIndex < Len(state'.input)

\* C21 as stated: a step executing ',' with an unconsumed character
\* available sets the current cell to that character's code and advances
\* inputIndex by exactly 1; with none available (buffer exhausted, empty
\* string returned) the cell becomes 0 and inputIndex is unchanged.
C21_ConsumeStoresCode ==
    [][Consumed =>
        IF Available
        THEN /\ Cell(state') = state'.input[state.inputIndex + 1]
             /\ state'.inputIndex = state.inputIndex + 1
        ELSE /\ Cell(state') = 0
             /\ state'.inputIndex = state.inputIndex]_vars

\* C21 amended: the cell receives the character's code modulo 256; the rest
\* as stated.
C21_ConsumeStoresByte ==
    [][Consumed =>
        IF Available
        THEN /\ Cell(state') = state'.input[state.inputIndex + 1] % 256
             /\ state'.inputIndex = state.inputIndex + 1
             /\ state'.pointer = state.pointer
        ELSE /\ Cell(state') = 0
             /\ state'.inputIndex = state.inputIndex
             /\ state'.pointer = state.pointer]_vars

\* C21 witness: the input source returned a text starting with the character
\* of code 321, and the waiting ',' stored 65 and moved inputIndex to 1.
C21_Witness ==
    /\ last.call = "inputResolves"
    /\ state.input = <<321, 66>>
    /\ state.inputIndex = 1
    /\ Cell(state) = 65

\* ------------------------------------------------------------------ flags
BothFalse(s) == ~s.isRunning /\ ~s.isPaused

\* C22 as stated: while a run loop is in progress (entered and not yet
\* returned), isRunning and isPaused are never both false.
C22_FlagsWhileLooping ==
    RunLoops > 0 => ~BothFalse(state)

\* C22 amended: while a run loop is in progress, isRunning and isPaused
\* become both false only by a step() that finds the program at its end, by
\* the loop's handling of such a step, or by reset().
C22_FlagsClearedAtEnd ==
    [][(RunLoops' > 0 /\ ~BothFalse(state) /\ BothFalse(state')) =>
            \/ last'.ret = "false"
            \/ last'.call = "stepReturns"
            \/ last'.call = "reset"]_vars

\* C22 witness: the loop's step has found the program at its end; the loop
\* has not returned yet and both flags are false.
C22_Witness ==
    /\ RunLoops > 0
    /\ last.call = "loopStep" /\ last.ret = "false"
    /\ BothFalse(state)

\* C23: inputIndex <= input.length in every reachable state, whatever the
\* interleaving of step(), run(), pause(), resume(), reset() and resolutions
\* of the input source.
C23_InputIndexInBuffer ==
    state.inputIndex <= Len(state.input)

\* C23 witness: two steps waited for the input source at once, one request
\* was answered with two characters, and both characters are consumed.
C23_Witness ==
    /\ state.input = <<321, 66>>
    /\ state.inputIndex = 2
    /\ last.call = "inputResolves"

\* ------------------------------------------------------------ other text
Instructions == {">", "<", "+", "-", ".", ",", "[", "]"}

\* A transition in which a step() was given a character of the program that
\* is no instruction.
ExecutedOther == last'.instr \notin Instructions \cup {"", "undefined"}

\* C24: a step on a character that is none of the eight instructions
\* returns true and adds 1 to programCounter; memory, pointer, output,
\* input, inputIndex, the flags and the loop-match stack are unchanged and
\* neither the sink nor the input source is called.
C24_OtherCharOnlyAdvances ==
    [][ExecutedOther =>
            /\ last'.ret = "true"
            /\ state'.programCounter = state.programCounter + 1
            /\ state'.memory = state.memory
            /\ state'.pointer = state.pointer
            /\ state'.output = state.output
            /\ state'.input = state.input
            /\ state'.inputIndex = state.inputIndex
            /\ last'.call \in {"step", "loopStep"} =>
                    /\ state'.isRunning = state.isRunning
                    /\ state'.isPaused = state.isPaused
            /\ loopStack' = loopStack
            /\ sinkLog' = sinkLog /\ last'.sink = <<>>
            /\ ~last'.source
            /\ StepsInFlight' = StepsInFlight]_vars

\* C24 witness: the 'x' at position 5 of '<->>+x' has been stepped over.
C24_Witness ==
    /\ program = P_move
    /\ last.instr = "x" /\ last.at = 5 /\ last.ret = "true"
    /\ state.programCounter = 6

\* ------------------------------------------------------ reset under a loop
\* The owner calls reset() while a run loop is active and keeps what
\* getState() returns right after it.
ResetThenGetState ==
    /\ RunLoops > 0
    /\ snapshot = NoSnapshot
    /\ state' = ResetState(state)
    /\ loopStack' = <<>>
    /\ sinkLog' = <<>>
    /\ snapshot' = SnapshotOf(ResetState(state))
    /\ snapTaken' = ResetState(state)
    /\ last' = LastPlain("reset")
    /\ pauseReq' = IF pauseReq = "none" THEN "none" ELSE "reset"
    /\ UNCHANGED <<program, onOutput, onInputRequest, tasks, app>>

\* One run(), one reset() during it, and nothing else called by the owner.
NextReset ==
    \/ RunOnce
    \/ ResetThenGetState
    \/ \E k \in TaskStates : StepReturns(k)
    \/ TimerContinue
    \/ TimerExit
    \/ \E k \in TaskStates, newInput \in InputTexts : InputResolves(k, newInput)

InitReset == Constructed({P_read, P_loop}, 1..MaxMem)

ResetSpec == InitReset /\ [][NextReset]_vars

\* C25: after a reset() called while a run loop was active, once the loop
\* has exited the state is still the one reset() produced (programCounter 0,
\* all cells 0, empty input) and the loop-match stack is empty.
C25_ResetStopsEffects ==
    (snapTaken # NoSnapshot /\ RunLoops = 0) =>
        /\ state = snapTaken
        /\ loopStack = <<>>

\* -------------------------------------------------------- the application
\* App.tsx around one engine, from the handleStart that creates it: the
\* programs read no input, the tape is bounded, both callbacks are bound.
InitApp ==
    /\ Constructed({P_loop}, 1..MaxMem)
    /\ onOutput /\ onInputRequest

\* Run loops waiting at k other than the one handleStart awaits.
OthersAt(k) == tasks[k] - (IF app.awaitedAt = k THEN 1 ELSE 0)

\* A loop waiting at k goes on to wait at `to`: the one handleStart awaits
\* (mine), or one started by resume(), whose promise nobody holds.
LoopMoves(k, mine, to) ==
    /\ IF mine THEN app.awaitedAt = k ELSE OthersAt(k) > 0
    /\ app' = IF mine THEN [app EXCEPT !.awaitedAt = to] ELSE app

\* handleStart with executionState 'idle': creates the engine, starts the
\* polling interval and awaits run().
HandleStartIdle ==
    /\ app.executionState = "idle"
    /\ last.call = "new"
    /\ StartLoop("run", state)
    /\ app' = [app EXCEPT !.executionState = "running",
                          !.polling = TRUE,
                          !.awaitedAt = AfterCall("run", StepSync(EnterRun(state), loopStack))]

\* handleStart with executionState 'paused': resume() returns nothing, so
\* the await ends at once; the interval started here is cleared before it
\* can fire, and executionState becomes 'idle' only if isRunning is already
\* false then.
HandleStartPaused ==
    /\ app.executionState = "paused"
    /\ IF ResumeGuard(state)
       THEN StartLoop("resume", ResumeState(state))
       ELSE /\ last' = LastPlain("resume")
            /\ UNCHANGED <<program, onOutput, onInputRequest, state, loopStack,
                           tasks, sinkLog, pauseReq, snapshot, snapTaken>>
    /\ app' = [app EXCEPT !.executionState = IF state'.isRunning THEN "running"
                                             ELSE "idle",
                          !.resumed = TRUE]

HandlePause ==
    /\ app.executionState = "running"
    /\ DoPause
    /\ app' = [app EXCEPT !.executionState = "paused"]

\* handleStep on the engine that handleStart created.
HandleStep ==
    /\ app.executionState # "running"
    /\ last.call # "new"
    /\ DoStep
    /\ UNCHANGED app

\* The polling interval of handleStart fires and finds isRunning false.
PollTick ==
    /\ app.polling
    /\ ~state.isRunning
    /\ app' = [app EXCEPT !.polling = FALSE,
                          !.executionState = IF state.isPaused THEN "paused"
                                             ELSE "idle"]
    /\ last' = LastPlain("poll")
    /\ UNCHANGED <<program, onOutput, onInputRequest, state, loopStack, tasks,
                   sinkLog, pauseReq, snapshot, snapTaken>>

AppStepReturns(k, mine) ==
    /\ DoStepReturns(k)
    /\ LoopMoves(k, mine, TimerTask)

AppTimerContinue(mine) ==
    /\ DoTimerContinue
    /\ LoopMoves(TimerTask, mine, AfterCall("run", StepSync(state, loopStack)))

\* The run() that handleStart awaits returns: handleStart clears its
\* interval and sets executionState from isPaused.
AwaitedRunReturns ==
    /\ DoTimerExit
    /\ app.awaitedAt = TimerTask
    /\ app' = [app EXCEPT !.awaitedAt = NoTask,
                          !.polling = FALSE,
                          !.executionState = IF state.isPaused THEN "paused"
                                             ELSE "idle"]

\* A run() started by resume() returns: nothing awaits it.
ForgottenRunReturns ==
    /\ DoTimerExit
    /\ OthersAt(TimerTask) > 0
    /\ UNCHANGED app

NextApp ==
    \/ HandleStartIdle
    \/ HandleStartPaused
    \/ HandlePause
    \/ HandleStep
    \/ PollTick
    \/ \E k \in TaskStates, mine \in BOOLEAN : AppStepReturns(k, mine)
    \/ \E mine \in BOOLEAN : AppTimerContinue(mine)
    \/ AwaitedRunReturns
    \/ ForgottenRunReturns

AppSpec == InitApp /\ [][NextApp]_vars

\* The program has run to its end and was not paused there.
NaturallyEnded == AtEnd(state) /\ ~state.isRunning /\ ~state.isPaused

\* Nothing is scheduled any more: no run loop is in flight and the polling
\* interval is cleared.
Settled == TaskCount = 0 /\ ~app.polling

\* C26: after a pause and a resume, once the resumed run has ended
\* naturally, executionState returns to 'idle'; stated for the moment from
\* which nothing scheduled is left to change it.
C26_ReturnsToIdle ==
    (app.resumed /\ NaturallyEnded /\ Settled) => app.executionState = "idle"

====
